---------------------------- MODULE Spec2Model ----------------------------
(***************************************************************************)
(* Model of the headline collection pipeline of src/main.py:               *)
(*   get_mag7_news -> fetch_finviz_news -> _parse_finviz_dt_et             *)
(* filter_last_24h and _parse_finviz_datetime_to_kst are called from       *)
(* nowhere in the program and are not part of the model.                   *)
(*                                                                         *)
(* Time.  An aware datetime is a record [y, mo, d, h, mi, off]: the wall   *)
(* clock fields and the UTC offset in minutes.  The absolute instant of a  *)
(* datetime is a number of minutes since 1970-01-01T00:00 UTC.  One minute *)
(* is the time unit: the timestamps of the news table carry no seconds.    *)
(*                                                                         *)
(* Text.  A raw timestamp cell is the sequence of its whitespace-separated *)
(* tokens (what str.split() returns); a token is a record with a kind k.   *)
(* A title is a sequence of characters.                                    *)
(***************************************************************************)
EXTENDS Integers, Sequences, FiniteSets, TLC

None == [k |-> "none"]

-----------------------------------------------------------------------------
(* Calendar arithmetic of datetime (proleptic Gregorian calendar).         *)

IsLeap(y) == (y % 4 = 0 /\ y % 100 # 0) \/ y % 400 = 0

DaysInMonth(y, m) ==
    IF m = 2 THEN (IF IsLeap(y) THEN 29 ELSE 28)
    ELSE IF m \in {4, 6, 9, 11} THEN 30 ELSE 31

\* Days from 1970-01-01 to the civil date y-m-d.
DaysFromCivil(y, m, d) ==
    LET yy  == IF m <= 2 THEN y - 1 ELSE y
        era == yy \div 400
        yoe == yy - era * 400
        mp  == IF m > 2 THEN m - 3 ELSE m + 9
        doy == (153 * mp + 2) \div 5 + d - 1
        doe == yoe * 365 + yoe \div 4 - yoe \div 100 + doy
    IN  era * 146097 + doe - 719468

\* The civil date <<y, m, d>> of day number z.
CivilFromDays(z) ==
    LET zz  == z + 719468
        era == zz \div 146097
        doe == zz - era * 146097
        yoe == (doe - doe \div 1460 + doe \div 36524 - doe \div 146096) \div 365
        doy == doe - (365 * yoe + yoe \div 4 - yoe \div 100)
        mp  == (5 * doy + 2) \div 153
        d   == doy - (153 * mp + 2) \div 5 + 1
        m   == IF mp < 10 THEN mp + 3 ELSE mp - 9
        y   == yoe + era * 400
    IN  << IF m <= 2 THEN y + 1 ELSE y, m, d >>

\* Minutes of a wall clock reading, counted as if the wall clock were UTC.
WallMinutes(y, m, d, h, mi) == (DaysFromCivil(y, m, d) * 24 + h) * 60 + mi

\* The absolute instant of an aware datetime.
Instant(dt) == WallMinutes(dt.y, dt.mo, dt.d, dt.h, dt.mi) - dt.off

\* The aware datetime that reads instant t on a clock at offset off.
AtOffset(t, off) ==
    LET w   == t + off
        day == w \div 1440
        c   == CivilFromDays(day)
        r   == w - day * 1440
    IN  [y |-> c[1], mo |-> c[2], d |-> c[3], h |-> r \div 60, mi |-> r % 60,
         off |-> off]

\* datetime.date(): the wall clock date of a datetime.
DateOf(dt) == [y |-> dt.y, mo |-> dt.mo, d |-> dt.d]

-----------------------------------------------------------------------------
(* The two zones of pytz used by the program.                              *)

KstOffset == 540
EstOffset == -300
EdtOffset == -240

\* Day number of the first Sunday on or after y-m-1 (day 0 was a Thursday).
FirstSunday(y, m) ==
    LET d1  == DaysFromCivil(y, m, 1)
        dow == (d1 + 4) % 7
    IN  d1 + ((7 - dow) % 7)

\* US/Eastern since 2007: daylight time from the second Sunday of March,
\* 02:00 EST, to the first Sunday of November, 02:00 EDT.
DstStartUtc(y) == (FirstSunday(y, 3) + 7) * 1440 + 2 * 60 - EstOffset
DstEndUtc(y)   == FirstSunday(y, 11) * 1440 + 2 * 60 - EdtOffset

\* now_kst.astimezone(et): the offset US/Eastern has at instant t.
EtOffsetAt(t) ==
    LET y == AtOffset(t, EstOffset).y
    IN  IF DstStartUtc(y) <= t /\ t < DstEndUtc(y) THEN EdtOffset ELSE EstOffset

ToEt(t) == AtOffset(t, EtOffsetAt(t))

ToKst(t) == AtOffset(t, KstOffset)

\* et.localize(naive), is_dst = False: a wall clock reading is daylight time
\* from 03:00 of the spring day up to 01:00 of the autumn day; the readings
\* the spring skips and the readings the autumn repeats are standard time.
EtLocalize(y, m, d, h, mi) ==
    LET w     == WallMinutes(y, m, d, h, mi)
        start == (FirstSunday(y, 3) + 7) * 1440 + 3 * 60
        stop  == FirstSunday(y, 11) * 1440 + 1 * 60
        off   == IF start <= w /\ w < stop THEN EdtOffset ELSE EstOffset
    IN  [y |-> y, mo |-> m, d |-> d, h |-> h, mi |-> mi, off |-> off]

-----------------------------------------------------------------------------
(* strptime on the tokens of a timestamp cell.                             *)
(*   [k |-> "today"]                      a word that begins with "today"  *)
(*   [k |-> "date", mon, dd, yy]          "Feb-03-26"                      *)
(*   [k |-> "time", hh, mm, ap]           "08:35AM"                        *)
(*   [k |-> "junk"]                       anything else                    *)

\* %b: the month number of an abbreviated month name, 0 when there is none.
MonthNum(mon) ==
    CASE mon = "Jan" -> 1  [] mon = "Feb" -> 2  [] mon = "Mar" -> 3
      [] mon = "Apr" -> 4  [] mon = "May" -> 5  [] mon = "Jun" -> 6
      [] mon = "Jul" -> 7  [] mon = "Aug" -> 8  [] mon = "Sep" -> 9
      [] mon = "Oct" -> 10 [] mon = "Nov" -> 11 [] mon = "Dec" -> 12
      [] OTHER -> 0

\* %y: 00..68 are 2000..2068 and 69..99 are 1969..1999.
Year2(yy) == IF yy <= 68 THEN 2000 + yy ELSE 1900 + yy

\* %I:%M%p accepts the token.
ValidTime(tok) ==
    /\ tok.k = "time"
    /\ tok.hh \in 1..12
    /\ tok.mm \in 0..59
    /\ tok.ap \in {"AM", "PM"}

\* The hour of day of a 12-hour reading: 12AM is 0 and 12PM is 12.
Hour24(tok) == (tok.hh % 12) + (IF tok.ap = "PM" THEN 12 ELSE 0)

\* %b-%d-%y accepts the token and the date exists.
ValidDate(tok) ==
    /\ tok.k = "date"
    /\ MonthNum(tok.mon) # 0
    /\ tok.yy \in 0..99
    /\ tok.dd \in 1..31
    /\ tok.dd <= DaysInMonth(Year2(tok.yy), MonthNum(tok.mon))

\* The "Today 08:35AM" branch: the last token is the time, and the date is
\* the date of now_et.
ParseToday(raw, now_et) ==
    IF Len(raw) >= 2 /\ ValidTime(raw[Len(raw)])
    THEN EtLocalize(now_et.y, now_et.mo, now_et.d,
                    Hour24(raw[Len(raw)]), raw[Len(raw)].mm)
    ELSE None

\* The "Feb-03-26 08:35AM" branch: the date and the time as they are
\* written (dt.replace(year=dt.year) changes nothing).
ParseFullDate(raw) ==
    IF Len(raw) = 2 /\ ValidDate(raw[1]) /\ ValidTime(raw[2])
    THEN EtLocalize(Year2(raw[1].yy), MonthNum(raw[1].mon), raw[1].dd,
                    Hour24(raw[2]), raw[2].mm)
    ELSE None

\* ParseTimeOnly falling back to the date of now_et when no row has parsed.
ParseTimeOnlyFallback(raw, now_et, last_date_et) ==
    IF Len(raw) = 1 /\ ValidTime(raw[1])
    THEN LET date == IF last_date_et # None THEN last_date_et ELSE now_et
         IN  EtLocalize(date.y, date.mo, date.d, Hour24(raw[1]), raw[1].mm)
    ELSE None

\* The "08:12AM" branch: the time on the date of the last row that parsed,
\* and None when no row has.
ParseTimeOnly(raw, now_et, last_date_et) ==
    IF Len(raw) = 1 /\ ValidTime(raw[1]) /\ last_date_et # None
    THEN EtLocalize(last_date_et.y, last_date_et.mo, last_date_et.d,
                    Hour24(raw[1]), raw[1].mm)
    ELSE None

\* _parse_finviz_dt_et(raw, now_et, last_date_et): a US/Eastern datetime, or
\* None.
_parse_finviz_dt_et(raw, now_et, last_date_et) ==
    IF raw = << >> THEN None
    ELSE IF raw[1].k = "today" THEN ParseToday(raw, now_et)
    ELSE IF ParseFullDate(raw) # None THEN ParseFullDate(raw)
    ELSE ParseTimeOnly(raw, now_et, last_date_et)

-----------------------------------------------------------------------------
(* Program constants and the bounds of the model.                          *)

\* The configured companies (the source asks to adjust the list as needed);
\* the model keeps the first two.
MAG7 == << "AAPL", "MSFT" >>

MAX_PER_TICKER == 5
FETCH_MAX_ITEMS == 120

\* The most rows the pages of one run serve, all tickers together.
MaxRows == 3
\* A cap and a max_items small enough for tables of MaxRows rows to reach.
SmallCap == 1
SmallMaxItems == 1

PerTickerSet == {SmallCap, MAX_PER_TICKER}
MaxItemsSet == {SmallMaxItems, FETCH_MAX_ITEMS}

Kst(y, m, d, h, mi) == [y |-> y, mo |-> m, d |-> d, h |-> h, mi |-> mi,
                        off |-> KstOffset]

\* datetime.now(kst): 2026-02-04 00:00 KST is 2026-02-03 10:00 EST, the zones
\* on different days; 2026-07-01 23:30 KST is 2026-07-01 10:30 EDT.
NowSet == { Kst(2026, 2, 4, 0, 0), Kst(2026, 7, 1, 23, 30) }

Today == [k |-> "today"]
Date(mon, dd, yy) == [k |-> "date", mon |-> mon, dd |-> dd, yy |-> yy]
Time(hh, mm, ap) == [k |-> "time", hh |-> hh, mm |-> mm, ap |-> ap]
Junk == [k |-> "junk"]

Row(raw_dt, title) == [ncells |-> 2, raw_dt |-> raw_dt, title |-> title]

\* The rows a news table is made of: td[0] is the timestamp and td[1] the
\* title.
RowSet ==
    { Row(<< Today, Time(9, 0, "AM") >>, << "A" >>),
      Row(<< Today, Time(13, 0, "PM") >>, << "B" >>),
      Row(<< Date("Feb", 2, 26), Time(10, 0, "AM") >>, << "a" >>),
      Row(<< Time(9, 59, "AM") >>, << "C" >>),
      Row(<< Date("Feb", 4, 26), Time(9, 0, "AM") >>, << "A" >>),
      Row(<< Junk >>, << "D" >>),
      Row(<< Today >>, << "E" >>),
      Row(<< Date("Feb", 3, 26), Time(8, 35, "AM") >>, << " " >>),
      [ncells |-> 1, raw_dt |-> << >>, title |-> << >>] }

RECURSIVE SeqsUpTo(_, _)
SeqsUpTo(S, n) ==
    IF n = 0 THEN { << >> }
    ELSE LET shorter == SeqsUpTo(S, n - 1)
         IN  shorter \cup { Append(t, x) : t \in shorter, x \in S }

\* The news tables of at most n rows.
Tables(n) == SeqsUpTo(RowSet, n)

-----------------------------------------------------------------------------
(* fetch_finviz_news, one row at a time.                                   *)

\* get_text(" ", strip=True): the text without the blanks around it.
RECURSIVE Strip(_)
Strip(txt) ==
    IF txt = << >> THEN << >>
    ELSE IF Head(txt) = " " THEN Strip(Tail(txt))
    ELSE IF txt[Len(txt)] = " " THEN Strip(SubSeq(txt, 1, Len(txt) - 1))
    ELSE txt

\* datetime.isoformat(): the printed fields, and "" printed as << >>.
IsoFormat(dt) == << dt.y, dt.mo, dt.d, dt.h, dt.mi, dt.off >>

\* datetime.fromisoformat().
FromIsoFormat(iso) == [y |-> iso[1], mo |-> iso[2], d |-> iso[3], h |-> iso[4],
                       mi |-> iso[5], off |-> iso[6]]

\* dt_et.astimezone(kst)
AstimezoneKst(dt) == ToKst(Instant(dt))

\* astimezone left out: the datetime as it is.
NoConversion(dt) == dt

\* now_kst.astimezone(et)
AstimezoneEt(dt) == ToEt(Instant(dt))

\* now_kst - timedelta(hours=24)
Minus24h(dt) == AtOffset(Instant(dt) - 24 * 60, dt.off)

\* RowSkipped without the title test of line 80.
RowSkippedShortOnly(row) == row.ncells < 2

\* The rows the loop passes over: fewer than two cells, or no title.
RowSkipped(row) == row.ncells < 2 \/ Strip(row.title) = << >>

\* The dict appended for a row, parsed or not.
FetchedItem(row, dt) ==
    [title |-> Strip(row.title), published |-> row.raw_dt,
     published_dt_kst |-> IF dt # None THEN IsoFormat(AstimezoneKst(dt))
                          ELSE << >>]

\* NextLastDate keeping the first date there was.
NextLastDateFirst(dt, last) ==
    IF last # None THEN last ELSE IF dt # None THEN DateOf(dt) ELSE None

\* NextLastDate forgetting the date at a row that did not parse.
NextLastDateReset(dt, last) == IF dt # None THEN DateOf(dt) ELSE None

\* last_date_et after a row that parsed to dt.
NextLastDate(dt, last) == IF dt # None THEN DateOf(dt) ELSE last

\* The loop of fetch_finviz_news over table[i..], as one fold.
RECURSIVE FetchLoop(_, _, _, _, _, _)
FetchLoop(table, i, now_et, last, acc, max) ==
    IF i > Len(table) THEN acc
    ELSE IF RowSkipped(table[i]) THEN FetchLoop(table, i + 1, now_et, last, acc, max)
    ELSE LET dt  == _parse_finviz_dt_et(table[i].raw_dt, now_et, last)
             new == Append(acc, FetchedItem(table[i], dt))
         IN  IF Len(new) >= max THEN new
             ELSE FetchLoop(table, i + 1, now_et, NextLastDate(dt, last), new, max)

\* fetch_finviz_news(ticker, now_kst, max_items) on a page that serves table.
fetch_finviz_news(table, now, max) ==
    FetchLoop(table, 1, AstimezoneEt(now), None, << >>, max)

-----------------------------------------------------------------------------
(* get_mag7_news.                                                          *)

\* IsRecent with the cutoff itself left out.
IsRecentStrict(it, cut) ==
    /\ it.published_dt_kst # << >>
    /\ Instant(FromIsoFormat(it.published_dt_kst)) > Instant(cut)

\* The test of the filter loop on one fetched item.
IsRecent(it, cut) ==
    /\ it.published_dt_kst # << >>
    /\ Instant(FromIsoFormat(it.published_dt_kst)) >= Instant(cut)

RecentItem(it) == [title |-> it.title, published |-> it.published]

\* Slice without the truncation.
Unsliced(seq, n) == seq

\* Slice keeping the last n instead of the first n.
SliceTail(seq, n) ==
    SubSeq(seq, IF Len(seq) - n + 1 > 1 THEN Len(seq) - n + 1 ELSE 1, Len(seq))

\* recent[:per_ticker]
Slice(seq, n) ==
    IF n >= 0 THEN SubSeq(seq, 1, IF n < Len(seq) THEN n ELSE Len(seq))
    ELSE SubSeq(seq, 1, IF Len(seq) + n > 0 THEN Len(seq) + n ELSE 0)

RECURSIVE FilterLoop(_, _, _, _)
FilterLoop(fetched, i, cut, acc) ==
    IF i > Len(fetched) THEN acc
    ELSE FilterLoop(fetched, i + 1, cut,
                    IF IsRecent(fetched[i], cut)
                    THEN Append(acc, RecentItem(fetched[i])) ELSE acc)

\* The entry get_mag7_news stores for a ticker whose page serves table.
CollectTicker(table, now, cap, max) ==
    Slice(FilterLoop(fetch_finviz_news(table, now, max), 1, Minus24h(now), << >>),
          cap)

VARIABLES
    now_kst,        \* get_mag7_news: the reference now
    cutoff,         \* get_mag7_news: now_kst - 24h
    per_ticker,     \* get_mag7_news: the cap
    max_items,      \* fetch_finviz_news: the argument of the call
    items,          \* get_mag7_news: ticker -> headlines
    ci,             \* get_mag7_news: index in MAG7 of the ticker in hand
    pc,             \* where the program is
    failed,         \* the tickers whose fetch raised
    table,          \* fetch_finviz_news: the rows of the page
    ri,             \* fetch_finviz_news: index of the next row
    raw_dt,         \* fetch_finviz_news: timestamp cell of the row in hand
    title,          \* fetch_finviz_news: title of the row in hand
    dt_et,          \* fetch_finviz_news: what the row in hand parsed to
    last_date_et,   \* fetch_finviz_news: date of the last row that parsed
    fetch_items,    \* fetch_finviz_news: items
    raw,            \* get_mag7_news: what fetch_finviz_news returned
    fi,             \* get_mag7_news: index of the next item of raw
    recent,         \* get_mag7_news: the items within the window
    parsed,         \* history: for each of fetch_items, the index of its row,
                    \*   the dt_et it parsed to and last_date_et after it
    recent_src,     \* history: for each of recent, the index of its item of raw
    served,         \* history: the rows the pages have served so far
    ended_date      \* history: last_date_et at the end of the call before,
                    \*   until the next page is read

vars == << now_kst, cutoff, per_ticker, max_items, items, ci, pc, failed, table,
           ri, raw_dt, title, dt_et, last_date_et, fetch_items, raw, fi, recent,
           parsed, recent_src, served, ended_date >>

fetch_locals == << table, ri, raw_dt, title, dt_et, last_date_et, fetch_items,
                   parsed >>
inputs == << now_kst, cutoff, per_ticker, max_items >>
filter_locals == << raw, fi, recent, recent_src >>

ticker == MAG7[ci]
now_et == AstimezoneEt(now_kst)

Init ==
    /\ now_kst \in NowSet
    /\ cutoff = Minus24h(now_kst)
    /\ per_ticker \in PerTickerSet
    /\ max_items \in MaxItemsSet
    /\ items = << >>
    /\ ci = 1
    /\ pc = "fetch"
    /\ failed = {}
    /\ table = << >>
    /\ ri = 1
    /\ raw_dt = << >>
    /\ title = << >>
    /\ dt_et = None
    /\ last_date_et = None
    /\ fetch_items = << >>
    /\ raw = << >>
    /\ fi = 1
    /\ recent = << >>
    /\ parsed = << >>
    /\ recent_src = << >>
    /\ served = 0
    /\ ended_date = None

\* FetchRaises without the except branch: the exception ends the run.
FetchRaisesEscapes ==
    /\ pc = "fetch"
    /\ pc' = "done"
    /\ UNCHANGED << inputs, served, ended_date, items, ci, failed, fetch_locals, filter_locals >>

\* requests.get or raise_for_status raises: the except branch stores [].
FetchRaises ==
    /\ pc = "fetch"
    /\ items' = (ticker :> << >>) @@ items
    /\ failed' = failed \cup {ticker}
    /\ pc' = "sleep"
    /\ UNCHANGED << inputs, served, ended_date, ci, fetch_locals, raw, fi, recent, recent_src >>

\* The page has no news table: fetch_finviz_news returns [].
FetchNoTable ==
    /\ pc = "fetch"
    /\ raw' = << >>
    /\ fi' = 1
    /\ recent' = << >>
    /\ recent_src' = << >>
    /\ pc' = "filter"
    /\ UNCHANGED << inputs, served, ended_date, items, ci, failed, fetch_locals >>

\* FetchPage without line 70: the row loop starts with the date the call
\* before it ended with.
FetchPageCarriesDate ==
    /\ pc = "fetch"
    /\ \E t \in Tables(MaxRows - served) :
           /\ table' = t
           /\ served' = served + Len(t)
    /\ ri' = 1
    /\ fetch_items' = << >>
    /\ last_date_et' = ended_date
    /\ ended_date' = None
    /\ parsed' = << >>
    /\ pc' = "rows"
    /\ UNCHANGED << inputs, items, ci, failed, raw_dt, title, dt_et, filter_locals >>

\* The page has a news table: the row loop starts.
FetchPage ==
    /\ pc = "fetch"
    /\ \E t \in Tables(MaxRows - served) :
           /\ table' = t
           /\ served' = served + Len(t)
    /\ ri' = 1
    /\ fetch_items' = << >>
    /\ last_date_et' = None
    /\ ended_date' = None
    /\ parsed' = << >>
    /\ pc' = "rows"
    /\ UNCHANGED << inputs, items, ci, failed, raw_dt, title, dt_et, filter_locals >>

\* A row with fewer than two cells: continue.
SkipShortRow ==
    /\ pc = "rows"
    /\ ri <= Len(table)
    /\ table[ri].ncells < 2
    /\ ri' = ri + 1
    /\ UNCHANGED << inputs, served, ended_date, items, ci, pc, failed, table, raw_dt, title, dt_et,
                    last_date_et, fetch_items, raw, fi, recent, parsed,
                    recent_src >>

\* A row without a title: continue.
SkipUntitledRow ==
    /\ pc = "rows"
    /\ ri <= Len(table)
    /\ table[ri].ncells >= 2
    /\ Strip(table[ri].title) = << >>
    /\ raw_dt' = table[ri].raw_dt
    /\ title' = << >>
    /\ ri' = ri + 1
    /\ UNCHANGED << inputs, served, ended_date, items, ci, pc, failed, table, dt_et, last_date_et,
                    fetch_items, raw, fi, recent, parsed, recent_src >>

\* A titled row: parse, append, and break at max_items.
ParseRow ==
    /\ pc = "rows"
    /\ ri <= Len(table)
    /\ ~RowSkipped(table[ri])
    /\ LET row == table[ri]
           dt  == _parse_finviz_dt_et(row.raw_dt, now_et, last_date_et)
           new == Append(fetch_items, FetchedItem(row, dt))
       IN  /\ raw_dt' = row.raw_dt
           /\ title' = Strip(row.title)
           /\ dt_et' = dt
           /\ last_date_et' = NextLastDate(dt, last_date_et)
           /\ fetch_items' = new
           /\ parsed' = Append(parsed, [row |-> ri, dt_et |-> dt,
                                        last |-> NextLastDate(dt, last_date_et)])
           /\ IF Len(new) >= max_items
              THEN /\ raw' = new
                   /\ fi' = 1
                   /\ recent' = << >>
                   /\ recent_src' = << >>
                   /\ pc' = "filter"
                   /\ ri' = ri
              ELSE /\ ri' = ri + 1
                   /\ UNCHANGED << raw, fi, recent, recent_src, pc >>
    /\ UNCHANGED << inputs, served, ended_date, items, ci, failed, table >>

\* The rows are exhausted: fetch_finviz_news returns items.
FetchReturn ==
    /\ pc = "rows"
    /\ ri > Len(table)
    /\ raw' = fetch_items
    /\ fi' = 1
    /\ recent' = << >>
    /\ recent_src' = << >>
    /\ pc' = "filter"
    /\ UNCHANGED << inputs, served, ended_date, items, ci, failed, fetch_locals >>

\* One pass of the loop over raw.
FilterItem ==
    /\ pc = "filter"
    /\ fi <= Len(raw)
    /\ recent' = IF IsRecent(raw[fi], cutoff)
                 THEN Append(recent, RecentItem(raw[fi])) ELSE recent
    /\ recent_src' = IF IsRecent(raw[fi], cutoff)
                     THEN Append(recent_src, fi) ELSE recent_src
    /\ fi' = fi + 1
    /\ UNCHANGED << inputs, served, ended_date, items, ci, pc, failed, fetch_locals, raw >>

\* items[ticker] = recent[:per_ticker]
StoreTicker ==
    /\ pc = "filter"
    /\ fi > Len(raw)
    /\ items' = (ticker :> Slice(recent, per_ticker)) @@ items
    /\ pc' = "sleep"
    /\ UNCHANGED << inputs, served, ended_date, ci, failed, fetch_locals, raw, fi, recent, recent_src >>

\* time.sleep, then the next ticker with fresh locals, or the return.
NextTicker ==
    /\ pc = "sleep"
    /\ IF ci < Len(MAG7)
       THEN /\ ci' = ci + 1
            /\ pc' = "fetch"
       ELSE /\ ci' = ci
            /\ pc' = "done"
    /\ table' = << >>
    /\ ri' = 1
    /\ raw_dt' = << >>
    /\ title' = << >>
    /\ dt_et' = None
    /\ last_date_et' = None
    /\ fetch_items' = << >>
    /\ raw' = << >>
    /\ fi' = 1
    /\ recent' = << >>
    /\ parsed' = << >>
    /\ recent_src' = << >>
    /\ ended_date' = last_date_et
    /\ UNCHANGED << inputs, served, items, failed >>

Next ==
    \/ FetchRaises
    \/ FetchNoTable
    \/ FetchPage
    \/ SkipShortRow
    \/ SkipUntitledRow
    \/ ParseRow
    \/ FetchReturn
    \/ FilterItem
    \/ StoreTicker
    \/ NextTicker

Spec == Init /\ [][Next]_vars

-----------------------------------------------------------------------------
(* Properties.                                                             *)

Tickers == { MAG7[i] : i \in 1..Len(MAG7) }

Range(seq) == { seq[i] : i \in 1..Len(seq) }

Day == 24 * 60

\* The instant the k-th item of recent was resolved to.
OutputDt(k) == parsed[recent_src[k]].dt_et

\* When a ticker's entry is stored it is [] if its fetch raised, and else what
\* its own page yields, whatever happened to the other tickers.
C1_EntryIsOwnPage ==
    pc = "sleep" =>
        /\ ticker \in DOMAIN items
        /\ items[ticker] = IF ticker \in failed THEN << >>
                           ELSE CollectTicker(table, now_kst, per_ticker, max_items)

\* get_mag7_news returns an entry for every configured ticker.
C1_AllAtReturn ==
    pc = "done" =>
        /\ DOMAIN items = Tickers
        /\ \A t \in failed : items[t] = << >>

\* An entry, once stored, stays as it is.
C1_EntriesKept ==
    \A t \in DOMAIN items : t \in DOMAIN items' /\ items'[t] = items[t]

\* C1: whichever tickers' fetches raise, get_mag7_news runs to its return
\* with an entry for every configured ticker; a failing ticker's entry is []
\* and every other entry is what the ticker's own page yields, the same as
\* if no ticker had failed.
C1_FailureIsolation ==
    /\ [](C1_EntryIsOwnPage /\ C1_AllAtReturn)
    /\ [][C1_EntriesKept]_vars

\* The first ticker's fetch raised and the second ticker has headlines.
C1_Witness ==
    /\ pc = "done"
    /\ failed = { MAG7[1] }
    /\ items[MAG7[2]] # << >>

\* C2: every item of a ticker's output was resolved to an instant t, in the
\* reporting zone, with reference_now - 24h <= t <= reference_now.
C2_WithinWindow ==
    (pc = "sleep" /\ ticker \notin failed) =>
        \A k \in 1..Len(items[ticker]) :
            /\ OutputDt(k) # None
            /\ raw[recent_src[k]].published_dt_kst[6] = KstOffset
            /\ Instant(now_kst) - Day <= Instant(OutputDt(k))
            /\ Instant(OutputDt(k)) <= Instant(now_kst)

\* The DedupeKey of a title: lower case, runs of blanks collapsed to one,
\* no blanks around it.
LowerChar(c) ==
    CASE c = "A" -> "a" [] c = "B" -> "b" [] c = "C" -> "c"
      [] c = "D" -> "d" [] c = "E" -> "e" [] OTHER -> c

RECURSIVE CollapseBlanks(_)
CollapseBlanks(txt) ==
    IF Len(txt) < 2 THEN txt
    ELSE IF txt[1] = " " /\ txt[2] = " " THEN CollapseBlanks(Tail(txt))
    ELSE << txt[1] >> \o CollapseBlanks(Tail(txt))

DedupeKey(txt) ==
    CollapseBlanks(Strip([i \in 1..Len(txt) |-> LowerChar(txt[i])]))

\* C3: no two items of a ticker's output have the same DedupeKey.
C3_NoDuplicateKey ==
    pc = "sleep" =>
        \A i, j \in 1..Len(items[ticker]) :
            i # j => DedupeKey(items[ticker][i].title)
                        # DedupeKey(items[ticker][j].title)

\* C4: the output of every ticker has at most per_ticker items.
C4_AtMostCap == \A t \in DOMAIN items : Len(items[t]) <= per_ticker

\* More items passed the filter than the cap allows, and the entry is full.
C4_Witness ==
    /\ pc = "sleep"
    /\ Len(recent) > per_ticker
    /\ Len(items[ticker]) = per_ticker

\* The item of raw at index i was resolved, and its instant converted to the
\* reporting zone is not before reference_now - 24h.
Retained(i) ==
    /\ parsed[i].dt_et # None
    /\ AstimezoneKst(parsed[i].dt_et).off = KstOffset
    /\ Instant(AstimezoneKst(parsed[i].dt_et)) >= Instant(now_kst) - Day

\* The indices up to n that Retained holds of, in order.
RECURSIVE RetainedUpTo(_)
RetainedUpTo(n) ==
    IF n = 0 THEN << >>
    ELSE IF Retained(n) THEN Append(RetainedUpTo(n - 1), n)
    ELSE RetainedUpTo(n - 1)

\* C5: the window filter keeps an item iff its instant was resolved and,
\* converted to the reporting zone, is at or after reference_now - 24h: the
\* items kept so far are exactly those of the items passed over.
C5_WindowFilter ==
    pc \in {"filter", "sleep"} =>
        /\ recent_src = RetainedUpTo(fi - 1)
        /\ recent = [k \in 1..Len(recent_src) |-> RecentItem(raw[recent_src[k]])]

\* An item exactly at the cutoff was kept, an item one minute before it was
\* dropped, and so was an item without an instant.
C5_Witness ==
    /\ pc = "sleep"
    /\ fi = 4
    /\ \E i, j, m \in 1..3 :
          /\ parsed[i].dt_et # None
          /\ Instant(parsed[i].dt_et) = Instant(now_kst) - Day
          /\ i \in Range(recent_src)
          /\ parsed[j].dt_et # None
          /\ Instant(parsed[j].dt_et) = Instant(now_kst) - Day - 1
          /\ j \notin Range(recent_src)
          /\ parsed[m].dt_et = None
          /\ m \notin Range(recent_src)

\* The timestamp cell is a bare time.
TimeOnlyRow(cell) == Len(cell) = 1 /\ cell[1].k = "time"

\* The timestamp cell is a full date and a time, both valid.
FullDateRow(cell) == Len(cell) = 2 /\ ValidDate(cell[1]) /\ ValidTime(cell[2])

\* The timestamp cell begins with the Today marker.
TodayRow(cell) == cell # << >> /\ cell[1].k = "today"

\* A titled row that carries its own date: a full date, or Today and a time.
DatedByItself(row) ==
    /\ ~RowSkipped(row)
    /\ \/ FullDateRow(row.raw_dt)
       \/ /\ TodayRow(row.raw_dt)
          /\ Len(row.raw_dt) >= 2
          /\ ValidTime(row.raw_dt[Len(row.raw_dt)])

\* The timestamp cell of the row the k-th fetched item came from.
CellOf(k) == table[parsed[k].row].raw_dt

\* C6: a time-only row with no dated row before it in its table parses to
\* none: it gets no instant (not the reference date either) and is not in
\* the output.
C6_TimeOnlyNeedsDate ==
    \A k \in 1..Len(parsed) :
        ( /\ TimeOnlyRow(CellOf(k))
          /\ \A j \in 1..(parsed[k].row - 1) : ~DatedByItself(table[j]) )
        => /\ parsed[k].dt_et = None
           /\ fetch_items[k].published_dt_kst = << >>
           /\ k \notin Range(recent_src)

\* A valid time-only row came before the first dated row and was not parsed;
\* the same time after the dated row was.
C6_Witness ==
    /\ pc = "sleep"
    /\ Len(parsed) = 3
    /\ TimeOnlyRow(CellOf(1)) /\ ValidTime(CellOf(1)[1])
    /\ parsed[1].dt_et = None
    /\ DatedByItself(table[parsed[2].row])
    /\ CellOf(3) = CellOf(1)
    /\ parsed[3].dt_et # None

\* The indices of the fetched items before k that parsed.
ParsedBefore(k) == { j \in 1..(k - 1) : parsed[j].dt_et # None }

Max(S) == CHOOSE x \in S : \A y \in S : y <= x

\* C7: a time-only row is resolved to its own time of day on the source zone
\* date of the nearest row before it that parsed, and last_date_et is the
\* source zone date of the last row that parsed.
C7_TimeOnlyInheritsDate ==
    /\ \A k \in 1..Len(parsed) :
          ( /\ TimeOnlyRow(CellOf(k))
            /\ ValidTime(CellOf(k)[1])
            /\ ParsedBefore(k) # {} )
          => LET prev == parsed[Max(ParsedBefore(k))].dt_et
                 dt   == parsed[k].dt_et
             IN  /\ dt # None
                 /\ DateOf(dt) = DateOf(prev)
                 /\ dt.h = Hour24(CellOf(k)[1])
                 /\ dt.mi = CellOf(k)[1].mm
                 /\ dt.off \in {EstOffset, EdtOffset}
    /\ last_date_et = IF ParsedBefore(Len(parsed) + 1) = {} THEN None
                      ELSE DateOf(parsed[Max(ParsedBefore(Len(parsed) + 1))].dt_et)

\* Two rows with different dates parsed, and the time-only row after them
\* took the date of the second.
C7_Witness ==
    /\ pc = "sleep"
    /\ Len(parsed) = 3
    /\ parsed[1].dt_et # None
    /\ parsed[2].dt_et # None
    /\ DateOf(parsed[1].dt_et) # DateOf(parsed[2].dt_et)
    /\ TimeOnlyRow(CellOf(3))
    /\ parsed[3].dt_et # None
    /\ DateOf(parsed[3].dt_et) = DateOf(parsed[2].dt_et)
    /\ last_date_et = DateOf(parsed[2].dt_et)

\* The year-wrap tolerance, in minutes.
Tolerance == 60

\* C8: a full-date row that reads more than the tolerance after
\* reference_now is resolved to the same month, day and time of the year
\* before.
C8_YearWrap ==
    \A k \in 1..Len(parsed) :
        LET cell    == CellOf(k)
            written == EtLocalize(Year2(cell[1].yy), MonthNum(cell[1].mon),
                                  cell[1].dd, Hour24(cell[2]), cell[2].mm)
        IN  ( /\ FullDateRow(cell)
              /\ Instant(written) > Instant(now_kst) + Tolerance )
            => parsed[k].dt_et =
                   EtLocalize(Year2(cell[1].yy) - 1, MonthNum(cell[1].mon),
                              cell[1].dd, Hour24(cell[2]), cell[2].mm)

\* The sequence without its i-th element.
RemoveAt(seq, i) == SubSeq(seq, 1, i - 1) \o SubSeq(seq, i + 1, Len(seq))

IsPrefix(a, b) == Len(a) <= Len(b) /\ a = SubSeq(b, 1, Len(a))

\* last_date_et before the k-th fetched item was parsed.
LastBefore(k) == IF k = 1 THEN None ELSE parsed[k - 1].last

\* The k-th fetched item did not parse, changed nothing of last_date_et and
\* is not in the output.
DroppedQuietly(k) ==
    /\ parsed[k].last = LastBefore(k)
    /\ raw[k].published_dt_kst = << >>
    /\ k \notin Range(recent_src)

\* The table of the ticker in hand without the row of the k-th fetched item.
TableWithout(k) == RemoveAt(table, parsed[k].row)

\* C9 as it is claimed: a row that does not parse leaves last_date_et as it
\* was, is not in the output, and the rows after it are resolved as if it
\* were not in the table: the output is that of the table without it.
C9_AsIfAbsent ==
    (pc = "sleep" /\ ticker \notin failed) =>
        \A k \in 1..Len(parsed) :
            parsed[k].dt_et = None =>
                /\ DroppedQuietly(k)
                /\ items[ticker]
                      = CollectTicker(TableWithout(k), now_kst, per_ticker, max_items)

\* C9, amended: a row that does not parse leaves last_date_et as it was and
\* is not in the output, but it is one of the max_items fetched items.  The
\* other fetched items are those the table without the row yields first; and
\* when the fetch ends short of max_items, they are all of them and the
\* output is that of the table without the row.
C9_AsIfAbsentUpToMaxItems ==
    (pc = "sleep" /\ ticker \notin failed) =>
        \A k \in 1..Len(parsed) :
            parsed[k].dt_et = None =>
                /\ DroppedQuietly(k)
                /\ IsPrefix(RemoveAt(raw, k),
                            fetch_finviz_news(TableWithout(k), now_kst, max_items))
                /\ Len(raw) < max_items =>
                      /\ RemoveAt(raw, k)
                            = fetch_finviz_news(TableWithout(k), now_kst, max_items)
                      /\ items[ticker]
                            = CollectTicker(TableWithout(k), now_kst, per_ticker,
                                            max_items)

\* A row that did not parse stood between a dated row and a time-only row,
\* and the time-only row took the date of the dated row.
C9_Witness ==
    /\ pc = "sleep"
    /\ ticker \notin failed
    /\ Len(parsed) = 3
    /\ parsed[1].dt_et # None
    /\ parsed[2].dt_et = None
    /\ TimeOnlyRow(CellOf(3))
    /\ parsed[3].dt_et # None
    /\ DateOf(parsed[3].dt_et) = DateOf(parsed[1].dt_et)
    /\ items[ticker] # << >>

\* C10: a row of Today and a valid time is resolved to that time of day on
\* the date reference_now has in the source zone; a Today row whose time is
\* missing or invalid is not resolved.
C10_TodayIsSourceZoneDate ==
    \A k \in 1..Len(parsed) :
        TodayRow(CellOf(k)) =>
            LET tok == CellOf(k)[Len(CellOf(k))]
                dt  == parsed[k].dt_et
            IN  IF Len(CellOf(k)) >= 2 /\ ValidTime(tok)
                THEN /\ dt # None
                     /\ DateOf(dt) = DateOf(ToEt(Instant(now_kst)))
                     /\ dt.h = Hour24(tok)
                     /\ dt.mi = tok.mm
                     /\ dt.off \in {EstOffset, EdtOffset}
                ELSE dt = None

\* At 2026-02-04 00:00 KST a Today row was resolved to 2026-02-03 in the
\* source zone, and the Today rows without a valid time were not resolved.
C10_Witness ==
    /\ pc = "sleep"
    /\ now_kst = Kst(2026, 2, 4, 0, 0)
    /\ \E a, b, c \in 1..Len(parsed) :
          /\ TodayRow(CellOf(a))
          /\ parsed[a].dt_et = [y |-> 2026, mo |-> 2, d |-> 3, h |-> 9, mi |-> 0,
                                off |-> EstOffset]
          /\ TodayRow(CellOf(b)) /\ Len(CellOf(b)) = 1
          /\ parsed[b].dt_et = None
          /\ TodayRow(CellOf(c)) /\ Len(CellOf(c)) = 2
          /\ parsed[c].dt_et = None

\* The row has two cells and a title.
Titled(row) == row.ncells >= 2 /\ Strip(row.title) # << >>

\* What the i-th row of tbl is resolved to, read off the table alone: its
\* timestamp parsed with the date of the nearest titled row before it that
\* is itself resolved.
RECURSIVE ResolvedAt(_, _), DateBefore(_, _)
DateBefore(tbl, i) ==
    IF i = 1 THEN None
    ELSE IF Titled(tbl[i - 1]) /\ ResolvedAt(tbl, i - 1) # None
         THEN DateOf(ResolvedAt(tbl, i - 1))
         ELSE DateBefore(tbl, i - 1)

ResolvedAt(tbl, i) ==
    _parse_finviz_dt_et(tbl[i].raw_dt, ToEt(Instant(now_kst)), DateBefore(tbl, i))

\* The row has a title, a resolved instant, and the instant is in the window.
Qualifies(tbl, i) ==
    /\ Titled(tbl[i])
    /\ ResolvedAt(tbl, i) # None
    /\ Instant(ResolvedAt(tbl, i)) >= Instant(now_kst) - Day

\* The titled rows among the first n rows of tbl.
TitledUpTo(tbl, n) == { j \in 1..n : Titled(tbl[j]) }

\* The indices of the qualifying rows among the first n, in table order;
\* with limit > 0, only rows among the first limit titled rows count.
RECURSIVE QualifyingUpTo(_, _, _)
QualifyingUpTo(tbl, n, limit) ==
    IF n = 0 THEN << >>
    ELSE IF /\ Qualifies(tbl, n)
            /\ (limit = 0 \/ Cardinality(TitledUpTo(tbl, n)) <= limit)
         THEN Append(QualifyingUpTo(tbl, n - 1, limit), n)
         ELSE QualifyingUpTo(tbl, n - 1, limit)

\* The first per_ticker of the rows of the table at the indices q, as output
\* items.
PrefixOf(q) ==
    [k \in 1..(IF per_ticker < Len(q) THEN per_ticker ELSE Len(q)) |->
        [title |-> Strip(table[q[k]].title), published |-> table[q[k]].raw_dt]]

\* C11 as it is claimed: the output is the first min(cap, k) of the k rows of
\* the table that have a title, a resolved instant and are in the window, in
\* table order.
C11_PrefixOfQualifying ==
    (pc = "sleep" /\ ticker \notin failed) =>
        items[ticker] = PrefixOf(QualifyingUpTo(table, Len(table), 0))

\* C11, amended: the same, of the qualifying rows among the first max_items
\* titled rows of the table; the rows after those are not read.
C11_PrefixOfQualifyingFetched ==
    (pc = "sleep" /\ ticker \notin failed) =>
        items[ticker] = PrefixOf(QualifyingUpTo(table, Len(table), max_items))

\* Two qualifying rows with a row that does not parse between them are in
\* the output in table order.
C11_Witness ==
    /\ pc = "sleep"
    /\ ticker \notin failed
    /\ Len(table) = 3
    /\ QualifyingUpTo(table, 3, max_items) = << 1, 3 >>
    /\ Titled(table[2])
    /\ Len(items[ticker]) = 2
    /\ items[ticker][1].published = table[1].raw_dt
    /\ items[ticker][2].published = table[3].raw_dt
    /\ table[1].raw_dt # table[3].raw_dt

\* C12: the date context is none at the first row of every ticker, whatever
\* the tickers before it resolved: a time-only row with no parsed row of its
\* own ticker before it is unparsed, and the ticker's output is the function
\* CollectTicker of its own table, the reference time and the two limits.
C12_DateContextPerTicker ==
    /\ (pc = "rows" /\ ri = 1) => last_date_et = None
    /\ \A k \in 1..Len(parsed) :
           (TimeOnlyRow(CellOf(k)) /\ ParsedBefore(k) = {})
           => /\ parsed[k].dt_et = None
              /\ parsed[k].last = None
    /\ (pc = "sleep" /\ ticker \notin failed)
       => items[ticker] = CollectTicker(table, now_kst, per_ticker, max_items)

\* The first ticker resolved a date and has output; the second ticker's
\* table starts with a valid time-only row, which is unparsed, and the dated
\* row after it is parsed.
C12_Witness ==
    /\ pc = "sleep"
    /\ ci = 2
    /\ MAG7[1] \in DOMAIN items
    /\ items[MAG7[1]] # << >>
    /\ Len(parsed) = 2
    /\ parsed[1].row = 1
    /\ TimeOnlyRow(CellOf(1)) /\ ValidTime(CellOf(1)[1])
    /\ parsed[1].dt_et = None
    /\ parsed[2].dt_et # None
    /\ Len(items[MAG7[2]]) = 1

\* A row with two cells and an empty title.
Untitled(row) == row.ncells >= 2 /\ Strip(row.title) = << >>

\* C13: a row with an empty title is passed over before its timestamp is
\* looked at: no fetched item comes from it, every fetched item is resolved
\* with the date of the nearest titled row before it that parsed, and the
\* fetched items (their number against max_items included) are those of the
\* table without the row.
C13_UntitledRowSkipped ==
    /\ \A k \in 1..Len(parsed) :
           /\ Titled(table[parsed[k].row])
           /\ parsed[k].dt_et = ResolvedAt(table, parsed[k].row)
    /\ (pc = "sleep" /\ ticker \notin failed)
       => \A i \in 1..Len(table) :
              Untitled(table[i])
              => fetch_items = fetch_finviz_news(RemoveAt(table, i), now_kst, max_items)

\* An untitled row with a valid full date stands between a dated row and a
\* time-only row: the time-only row has the date of the dated row, not the
\* date of the untitled one.
C13_Witness ==
    /\ pc = "sleep"
    /\ Len(table) = 3
    /\ Untitled(table[2])
    /\ ParseFullDate(table[2].raw_dt) # None
    /\ Len(parsed) = 2
    /\ parsed[1].row = 1 /\ parsed[1].dt_et # None
    /\ parsed[2].row = 3 /\ parsed[2].dt_et # None
    /\ TimeOnlyRow(CellOf(2))
    /\ DateOf(parsed[2].dt_et) = DateOf(parsed[1].dt_et)
    /\ DateOf(parsed[2].dt_et) # DateOf(ParseFullDate(table[2].raw_dt))

=============================================================================
